---- MODULE Spec2Model ----
(***************************************************************************)
(* SwitchLang (src/main.py): a keyboard hook that rebuilds the current     *)
(* word from key-down events and, on space, replaces a word found in one   *)
(* of two mapping tables by erasing it and typing its mapped text.         *)
(*                                                                         *)
(* Three threads of control are modelled: the keyboard listener that calls *)
(* on_key_event for one event at a time, the tray thread that runs the     *)
(* menu callbacks, and the main thread of run().                           *)
(*                                                                         *)
(* The keyboard library is outside the source: its calls are recorded in   *)
(* replay, and the events it delivers are inputs.                          *)
(*                                                                         *)
(* Strings are sequences of one-character strings.  A Thai character is    *)
(* written as the name of its code point ("U+0E2A").                       *)
(***************************************************************************)
EXTENDS Naturals, Sequences, FiniteSets

VARIABLES
    buffer,                 \* self.buffer
    is_running,             \* self.is_running
    thai_to_eng_mappings,   \* self.thai_to_eng_mappings (Direction A)
    eng_to_thai_mappings,   \* self.eng_to_thai_mappings (Direction B)
    recent_words,           \* self.recent_words
    files,                  \* the two JSON files, in the script directory and in the working directory
    cwd_is_script_dir,      \* whether the process was started in the script's directory
    hooked,                 \* keyboard.hook(self.on_key_event) is in force
    keyPc,                  \* keyboard listener: "idle", or "l146" between line 145 and line 146
    current_word,           \* local of check_and_correct_word while keyPc = "l146"
    trayPc,                 \* tray thread: "off", "idle", "l100" (at line 100), "stopped"
    mainPc,                 \* main thread in run(): "l177", "l181", "l186", "l193", "done"
    replay,                 \* calls made to the keyboard library by the latest on_key_event
    last,                   \* the latest event given to on_key_event and the state it found
    loaded,                 \* thai_to_eng_mappings as __init__ loaded it
    saved,                  \* the latest run of save_mappings in this process
    started,                \* what __init__ found, and the last save of the process before
    unhook_calls,           \* calls of keyboard.unhook_all() in this process
    icon_stop_calls         \* calls of self.tray_icon.stop() in this process

vars == <<buffer, is_running, thai_to_eng_mappings, eng_to_thai_mappings,
          recent_words, files, cwd_is_script_dir, hooked, keyPc, current_word,
          trayPc, mainPc, replay, last, loaded, saved, started,
          unhook_calls, icon_stop_calls>>

(***************************************************************************)
(* Bounds of the model.                                                    *)
(***************************************************************************)
\* longest buffer the typist builds before pressing enter or backspace
MaxBuf == 5
\* unmatched words the typist lets recent_words collect under Spec
MaxUnmatched == 2
\* clicks of 'Exit' the user makes while the icon fails to stop
MaxExit == 2

(***************************************************************************)
(* Literals of the source.                                                 *)
(***************************************************************************)
\* "l;ylfu8iy["
HelloKey == <<"l", ";", "y", "l", "f", "u", "8", "i", "y", "[">>
\* its Thai text, line 51
HelloVal == <<"U+0E2A", "U+0E27", "U+0E31", "U+0E2A", "U+0E14", "U+0E35", "U+0E04", "U+0E23", "U+0E31", "U+0E1A">>
\* "wxwso,k"
WhereKey == <<"w", "x", "w", "s", "o", ",", "k">>
\* its Thai text, line 52
WhereVal == <<"U+0E44", "U+0E1B", "U+0E44", "U+0E2B", "U+0E19", "U+0E21", "U+0E32">>
\* "vbiyd", line 100
AddKey == <<"v", "b", "i", "y", "d">>
\* its Thai text, line 100
AddVal == <<"U+0E2A", "U+0E1A", "U+0E32", "U+0E22">>

RecentLimit == 20

ThaiFile == "thai_to_eng.json"
EngFile == "eng_to_thai.json"

EmptyTable == [k \in {} |-> <<>>]

\* the table a {key: value} literal builds from pairs
dict(pairs) == [k \in {p[1] : p \in pairs} |-> (CHOOSE p \in pairs : p[1] = k)[2]]

\* default_mappings of load_mappings
default_mappings(filename) ==
    IF filename = ThaiFile
    THEN dict({<<HelloKey, HelloVal>>, <<WhereKey, WhereVal>>})
    ELSE EmptyTable

\* a store that leaves the value short of its last character
dict_setitem_torn(d, k, v) ==
    [x \in (DOMAIN d) \cup {k} |-> IF x = k THEN SubSeq(v, 1, Len(v) - 1) ELSE d[x]]

\* d[k] = v
dict_setitem(d, k, v) == [x \in (DOMAIN d) \cup {k} |-> IF x = k THEN v ELSE d[x]]


(***************************************************************************)
(* Strings.                                                                *)
(***************************************************************************)
\* characters str.strip() removes; space is the only one a key event can add here
Whitespace == {" "}

RECURSIVE lstrip(_)
lstrip(s) == IF s # <<>> /\ Head(s) \in Whitespace THEN lstrip(Tail(s)) ELSE s

RECURSIVE rstrip(_)
rstrip(s) == IF s # <<>> /\ s[Len(s)] \in Whitespace THEN rstrip(SubSeq(s, 1, Len(s) - 1)) ELSE s

\* str.strip()
strip(s) == rstrip(lstrip(s))

(***************************************************************************)
(* The mapping files.  A file is absent, unparsable, or holds a table.     *)
(***************************************************************************)
Absent == [kind |-> "absent"]
Corrupt == [kind |-> "corrupt"]
Json(table) == [kind |-> "json", table |-> table]

Dirs == {"script", "cwd"}
FileNames == {ThaiFile, EngFile}

\* load_mappings resolves the name against the directory of main.py
load_path(filename) == <<"script", filename>>

\* save_mappings opens the bare name, which the OS resolves against the working directory
save_path(same_dir, filename) == <<IF same_dir THEN "script" ELSE "cwd", filename>>

\* a load that falls back to the defaults when the file cannot be parsed
load_mappings_result_default_on_error(fs, filename) ==
    LET f == fs[load_path(filename)] IN
    IF f.kind = "json" THEN f.table ELSE default_mappings(filename)

\* what load_mappings returns
load_mappings_result(fs, filename) ==
    LET f == fs[load_path(filename)] IN
    IF f.kind # "absent"
    THEN IF f.kind = "json" THEN f.table ELSE EmptyTable
    ELSE default_mappings(filename)

\* outcomes of writing one file: written, open() raised, json.dump raised part-way
WriteOutcomes == {"ok", "open", "dump"}

\* the file after an attempt to write table into it
written(old, table, outcome) ==
    IF outcome = "ok" THEN Json(table)
    ELSE IF outcome = "open" THEN old
    ELSE Corrupt

\* the files after load_mappings: a missing file is created with the defaults
load_mappings_files(fs, filename, outcome) ==
    LET p == load_path(filename) IN
    IF fs[p].kind # "absent"
    THEN fs
    ELSE [fs EXCEPT ![p] = written(fs[p], default_mappings(filename), outcome)]

\* where save_mappings stops: nowhere, or at the open or the dump of the first or second file
SaveFaults == {"none", "open1", "dump1", "open2", "dump2"}

\* the files after save_mappings
save_mappings_files(fs, same_dir, thai, eng, fault) ==
    LET p1 == save_path(same_dir, ThaiFile)
        p2 == save_path(same_dir, EngFile)
        o1 == IF fault = "open1" THEN "open" ELSE IF fault = "dump1" THEN "dump" ELSE "ok"
        o2 == IF fault = "open2" THEN "open" ELSE IF fault = "dump2" THEN "dump" ELSE "ok"
        fs1 == [fs EXCEPT ![p1] = written(fs[p1], thai, o1)]
    IN  IF o1 # "ok" THEN fs1
        ELSE [fs1 EXCEPT ![p2] = written(fs1[p2], eng, o2)]

\* the two in-memory tables after save_mappings: it assigns neither
save_mappings_tables(thai, eng, fault) == <<thai, eng>>

\* the files save_mappings opened for writing, in order
save_mappings_opens(fault) ==
    IF fault \in {"open1", "dump1"} THEN <<ThaiFile>> ELSE <<ThaiFile, EngFile>>

\* a save_mappings without the except clause
save_mappings_raises_on_fault(fault) == fault # "none"

\* whether save_mappings raises to its caller: line 73 catches Exception
save_mappings_raises(fault) == FALSE

\* a run of save_mappings on the tables thai and eng
save_mappings_run(thai, eng, fault) ==
    [fault |-> fault, thai |-> thai, eng |-> eng,
     raised |-> save_mappings_raises(fault), opens |-> save_mappings_opens(fault)]

\* no run of save_mappings yet
NeverSaved ==
    [fault |-> "never", thai |-> EmptyTable, eng |-> EmptyTable,
     raised |-> FALSE, opens |-> <<>>]

(***************************************************************************)
(* The environment: files found at start-up, and what the typist types.    *)
(***************************************************************************)
\* a thai_to_eng.json edited by the user: it already maps "vbiyd", and maps "d"
SampleThai == dict({<<AddKey, <<"U+0E14">> >>, <<<<"d">>, <<"U+0E01">> >>})
\* an eng_to_thai.json edited by the user: it maps "d" too
SampleEng == dict({<<<<"d">>, <<"U+0E02", "U+0E32">> >>})

\* the two files of the script directory at start-up: none yet, the user's two, or
\* the user's eng_to_thai.json beside a damaged thai_to_eng.json
FilePairsAtStart ==
    {<<Absent, Absent>>, <<Json(SampleThai), Json(SampleEng)>>, <<Corrupt, Json(SampleEng)>>}

\* words the typist types, letter by letter
Vocabulary == {AddKey, <<"d">>, <<"b">>}

IsPrefix(s, t) == Len(s) <= Len(t) /\ SubSeq(t, 1, Len(s)) = s

RECURSIVE LastWord(_)
\* the characters after the last whitespace of s
LastWord(s) ==
    IF s = <<>> \/ s[Len(s)] \in Whitespace THEN <<>>
    ELSE Append(LastWord(SubSeq(s, 1, Len(s) - 1)), s[Len(s)])

Letters == UNION {{w[i] : i \in 1..Len(w)} : w \in Vocabulary}

\* the typist types c next: it continues a word of the vocabulary
CanType(buf, c) ==
    /\ Len(buf) < MaxBuf
    /\ \E w \in Vocabulary : IsPrefix(Append(LastWord(buf), c), w)


(***************************************************************************)
(* Key events.  scan is what keyboard.key_to_char gives for the event's    *)
(* scan code: "none", "multi" (a longer string), "raise", or one character.*)
(***************************************************************************)
\* len(event.name)
name_len(name) ==
    CASE name \in Letters -> 1
      [] name = "alt" -> 3
      [] name = "ctrl" -> 4
      [] name \in {"space", "enter", "shift"} -> 5
      [] name = "backspace" -> 9
      [] name = "right shift" -> 11

KeyDown(name) == [event_type |-> "down", name |-> name, scan |-> "none"]
KeyUp(name) == [event_type |-> "up", name |-> name, scan |-> "none"]
Scanned(name, scan) == [event_type |-> "down", name |-> name, scan |-> scan]

\* the typist presses space after a whole word, or on a buffer without one
CanSpace(buf) == Len(buf) <= MaxBuf /\ LastWord(buf) \in Vocabulary \cup {<<>>}

\* the keys the typist presses when the buffer is buf
TypedEvents(buf) ==
    {KeyDown(n) : n \in {"enter", "backspace"}}
        \cup {KeyDown("space") : x \in {y \in {0} : CanSpace(buf)}}
        \cup {KeyDown(c) : c \in {x \in Letters : CanType(buf, x)}}

\* the events the keyboard library delivers when the buffer is buf
Events(buf) ==
    TypedEvents(buf)
        \cup {KeyDown("shift"), KeyDown("ctrl"), KeyDown("alt"), KeyUp("space")}
        \cup {Scanned("right shift", r) : r \in {"none", "multi", "raise"}}
        \cup {Scanned("right shift", c) : c \in {x \in Letters : CanType(buf, x)}}

(***************************************************************************)
(* on_key_event and what it calls.                                         *)
(***************************************************************************)
Backspace == [op |-> "press_and_release", key |-> "backspace"]
Write(text) == [op |-> "write", text |-> text]

\* apply_correction erasing the word but not the space after it
apply_correction_calls_word_only(wrong_word, correct_word) ==
    [i \in 1..Len(wrong_word) |-> Backspace] \o <<Write(correct_word \o <<" ">>)>>

\* the calls apply_correction makes, in order
apply_correction_calls(wrong_word, correct_word) ==
    [i \in 1..(Len(wrong_word) + 1) |-> Backspace] \o <<Write(correct_word \o <<" ">>)>>

\* recent_words.pop() in place of pop(0)
recent_append_pop_last(recent, word) ==
    LET r == Append(recent, word) IN
    IF Len(r) > RecentLimit THEN SubSeq(r, 1, Len(r) - 1) ELSE r

\* lines 158-160
recent_append(recent, word) ==
    LET r == Append(recent, word) IN
    IF Len(r) > RecentLimit THEN Tail(r) ELSE r

\* buffer[1:] in place of buffer[:-1]
backspace_buffer_first(buf) == IF buf # <<>> THEN Tail(buf) ELSE buf

\* lines 126-127
backspace_buffer(buf) == IF buf # <<>> THEN SubSeq(buf, 1, Len(buf) - 1) ELSE buf

\* enter keeping the buffer
enter_buffer_kept(buf) == buf

\* line 123
enter_buffer(buf) == <<>>

\* the two tables tested in the other order
matching_table_eng_first(word, thai, eng) ==
    IF word \in DOMAIN eng THEN "eng"
    ELSE IF word \in DOMAIN thai THEN "thai"
    ELSE "none"

\* the table check_and_correct_word takes the word from: "thai", "eng" or "none"
matching_table(word, thai, eng) ==
    IF word \in DOMAIN thai THEN "thai"
    ELSE IF word \in DOMAIN eng THEN "eng"
    ELSE "none"

\* what the handler found: the event, is_running as line 112 read it, the buffer and
\* recent_words it started from, thai_to_eng_mappings as line 145 tested it and as the
\* handler last read it, and what it raised
Seen(ev, raised) ==
    [event |-> ev, running |-> is_running, buffer |-> buffer, recent |-> recent_words,
     tested |-> thai_to_eng_mappings, thai |-> thai_to_eng_mappings, raised |-> raised]

\* apply_correction(wrong_word, correct_word), then line 120; fault = k > 0: the k-th call raises
apply_correction(seen, wrong_word, correct_word, fault) ==
    LET calls == apply_correction_calls(wrong_word, correct_word) IN
    /\ fault <= Len(calls)
    /\ IF fault = 0
       THEN /\ replay' = calls
            /\ buffer' = <<>> \o <<" ">>
            /\ last' = seen
       ELSE /\ replay' = SubSeq(calls, 1, fault - 1)
            /\ buffer' = buffer
            /\ last' = [seen EXCEPT !.raised = "bridge"]
    /\ keyPc' = "idle"
    /\ current_word' = <<>>
    /\ UNCHANGED recent_words

\* a handler run that leaves the word state as it is
key_ignored(ev, raised) ==
    /\ replay' = <<>>
    /\ last' = Seen(ev, raised)
    /\ UNCHANGED <<buffer, recent_words, keyPc, current_word>>

\* a handler run that only sets the buffer
key_buffer(ev, buf) ==
    /\ buffer' = buf
    /\ replay' = <<>>
    /\ last' = Seen(ev, "none")
    /\ UNCHANGED <<recent_words, keyPc, current_word>>

\* a stop flag that on_key_event does not read
dropped_only_key_up(running, ev) == ev.event_type # "down"

\* lines 112-115: the event is dropped when the engine has stopped or the key went up
dropped(running, ev) == ~running \/ ev.event_type # "down"

\* a test of the buffer alone, without the test of the stripped word
has_word_unstripped(buf) == buf # <<>>

\* lines 118 and 141-142: the buffer holds a word to look up
has_word(buf) == buf # <<>> /\ strip(buf) # <<>>

\* lines 117-120
key_space(ev, fault) ==
    LET word == strip(buffer)
        table == matching_table(word, thai_to_eng_mappings, eng_to_thai_mappings)
    IN  IF ~has_word(buffer)
        THEN fault = 0 /\ key_buffer(ev, buffer \o <<" ">>)
        ELSE IF table = "thai"
        THEN /\ fault = 0
             /\ keyPc' = "l146"
             /\ current_word' = word
             /\ replay' = <<>>
             /\ last' = Seen(ev, "none")
             /\ UNCHANGED <<buffer, recent_words>>
        ELSE IF table = "eng"
        THEN apply_correction(Seen(ev, "none"), word, eng_to_thai_mappings[word], fault)
        ELSE /\ fault = 0
             /\ recent_words' = recent_append(recent_words, word)
             /\ buffer' = buffer \o <<" ">>
             /\ replay' = <<>>
             /\ last' = Seen(ev, "none")
             /\ UNCHANGED <<keyPc, current_word>>

\* lines 110-136, up to the membership test of line 145 when there is one
on_key_event(ev, fault) ==
    /\ hooked
    /\ mainPc # "done"
    /\ keyPc = "idle"
    /\ IF dropped(is_running, ev)
       THEN fault = 0 /\ key_ignored(ev, "none")
       ELSE IF ev.name = "space"
       THEN key_space(ev, fault)
       ELSE IF ev.name = "enter"
       THEN fault = 0 /\ key_buffer(ev, enter_buffer(buffer))
       ELSE IF ev.name = "backspace"
       THEN fault = 0 /\ key_buffer(ev, backspace_buffer(buffer))
       ELSE IF name_len(ev.name) = 1 \/ ev.name \in {"shift", "ctrl", "alt"}
       THEN /\ fault = 0
            /\ IF ev.name \notin {"shift", "ctrl", "alt"}
               THEN key_buffer(ev, buffer \o <<ev.name>>)
               ELSE key_ignored(ev, "none")
       ELSE /\ fault = 0
            /\ IF ev.scan = "raise" THEN key_ignored(ev, "resolver")
               ELSE IF ev.scan \in Letters THEN key_buffer(ev, buffer \o <<ev.scan>>)
               ELSE key_ignored(ev, "none")
    /\ UNCHANGED <<is_running, thai_to_eng_mappings, eng_to_thai_mappings, files,
                   cwd_is_script_dir, hooked, trayPc, mainPc, loaded, saved, started,
                   unhook_calls, icon_stop_calls>>

\* lines 146-148, then line 120
on_key_event_l146(fault) ==
    /\ mainPc # "done"
    /\ keyPc = "l146"
    /\ IF current_word \in DOMAIN thai_to_eng_mappings
       THEN apply_correction([last EXCEPT !.thai = thai_to_eng_mappings], current_word,
                             thai_to_eng_mappings[current_word], fault)
       ELSE /\ fault = 0
            /\ keyPc' = "idle"
            /\ current_word' = <<>>
            /\ replay' = <<>>
            /\ last' = [last EXCEPT !.raised = "KeyError", !.thai = thai_to_eng_mappings]
            /\ UNCHANGED <<buffer, recent_words>>
    /\ UNCHANGED <<is_running, thai_to_eng_mappings, eng_to_thai_mappings, files,
                   cwd_is_script_dir, hooked, trayPc, mainPc, loaded, saved, started,
                   unhook_calls, icon_stop_calls>>


(***************************************************************************)
(* The tray thread: the menu callbacks, one at a time.                     *)
(***************************************************************************)
\* 'Add New Mapping' is clicked: lines 94-98
show_add_mapping_dialog ==
    /\ mainPc # "done"
    /\ trayPc = "idle"
    /\ trayPc' = "l100"
    /\ UNCHANGED <<buffer, is_running, thai_to_eng_mappings, eng_to_thai_mappings,
                   recent_words, files, cwd_is_script_dir, hooked, keyPc, current_word,
                   mainPc, replay, last, loaded, saved, started,
                   unhook_calls, icon_stop_calls>>

\* the store of line 100 without the save_mappings of line 101
show_add_mapping_dialog_l100_unsaved(fault) ==
    /\ mainPc # "done"
    /\ trayPc = "l100"
    /\ thai_to_eng_mappings' = dict_setitem(thai_to_eng_mappings, AddKey, AddVal)
    /\ trayPc' = "idle"
    /\ UNCHANGED <<buffer, is_running, eng_to_thai_mappings, recent_words, files,
                   cwd_is_script_dir, hooked, keyPc, current_word, mainPc, replay,
                   last, loaded, saved, started, unhook_calls, icon_stop_calls>>

\* lines 100-101: the store into the table, then save_mappings
show_add_mapping_dialog_l100(fault) ==
    /\ mainPc # "done"
    /\ trayPc = "l100"
    /\ LET stored == dict_setitem(thai_to_eng_mappings, AddKey, AddVal)
           after == save_mappings_tables(stored, eng_to_thai_mappings, fault)
       IN  /\ thai_to_eng_mappings' = after[1]
           /\ eng_to_thai_mappings' = after[2]
           /\ files' = save_mappings_files(files, cwd_is_script_dir, stored,
                                           eng_to_thai_mappings, fault)
           /\ saved' = save_mappings_run(stored, eng_to_thai_mappings, fault)
    /\ trayPc' = "idle"
    /\ UNCHANGED <<buffer, is_running, recent_words,
                   cwd_is_script_dir, hooked, keyPc, current_word, mainPc, replay,
                   last, loaded, started, unhook_calls, icon_stop_calls>>

\* 'Save Mappings' is clicked: line 89
save_mappings(fault) ==
    /\ mainPc # "done"
    /\ trayPc = "idle"
    /\ LET after == save_mappings_tables(thai_to_eng_mappings, eng_to_thai_mappings, fault)
       IN  /\ thai_to_eng_mappings' = after[1]
           /\ eng_to_thai_mappings' = after[2]
    /\ files' = save_mappings_files(files, cwd_is_script_dir, thai_to_eng_mappings,
                                    eng_to_thai_mappings, fault)
    /\ saved' = save_mappings_run(thai_to_eng_mappings, eng_to_thai_mappings, fault)
    /\ UNCHANGED <<buffer, is_running,
                   recent_words, cwd_is_script_dir, hooked, keyPc, current_word,
                   trayPc, mainPc, replay, last, loaded, started,
                   unhook_calls, icon_stop_calls>>

\* 'Exit' is clicked: lines 103-108; the icon stops, and with it the tray thread's loop
exit_app ==
    /\ mainPc # "done"
    /\ trayPc = "idle"
    /\ is_running' = FALSE
    /\ icon_stop_calls' = icon_stop_calls + 1
    /\ trayPc' = "stopped"
    /\ UNCHANGED <<buffer, thai_to_eng_mappings, eng_to_thai_mappings, recent_words,
                   files, cwd_is_script_dir, hooked, keyPc, current_word, mainPc,
                   replay, last, loaded, saved, started, unhook_calls>>

\* 'Exit' is clicked, line 105 alone: the flag is cleared
exit_app_l105 ==
    /\ mainPc # "done"
    /\ trayPc = "idle"
    /\ icon_stop_calls < MaxExit
    /\ is_running' = FALSE
    /\ trayPc' = "l106"
    /\ UNCHANGED <<buffer, thai_to_eng_mappings, eng_to_thai_mappings, recent_words,
                   files, cwd_is_script_dir, hooked, keyPc, current_word, mainPc,
                   replay, last, loaded, saved, started,
                   unhook_calls, icon_stop_calls>>

\* lines 106-108; fault: tray_icon.stop() raised, and the icon's loop goes on
exit_app_l106(fault) ==
    /\ mainPc # "done"
    /\ trayPc = "l106"
    /\ icon_stop_calls' = icon_stop_calls + 1
    /\ trayPc' = IF fault THEN "idle" ELSE "stopped"
    /\ UNCHANGED <<buffer, is_running, thai_to_eng_mappings, eng_to_thai_mappings,
                   recent_words, files, cwd_is_script_dir, hooked, keyPc, current_word,
                   mainPc, replay, last, loaded, saved, started, unhook_calls>>

(***************************************************************************)
(* The main thread: run().                                                 *)
(***************************************************************************)
\* line 177
run_l177 ==
    /\ mainPc = "l177"
    /\ hooked' = TRUE
    /\ mainPc' = "l181"
    /\ UNCHANGED <<buffer, is_running, thai_to_eng_mappings, eng_to_thai_mappings,
                   recent_words, files, cwd_is_script_dir, keyPc, current_word,
                   trayPc, replay, last, loaded, saved, started,
                   unhook_calls, icon_stop_calls>>

\* lines 181-183
run_l181 ==
    /\ mainPc = "l181"
    /\ trayPc' = "idle"
    /\ mainPc' = "l186"
    /\ UNCHANGED <<buffer, is_running, thai_to_eng_mappings, eng_to_thai_mappings,
                   recent_words, files, cwd_is_script_dir, hooked, keyPc, current_word,
                   replay, last, loaded, saved, started,
                   unhook_calls, icon_stop_calls>>

\* a loop that never reads is_running
run_l186_ignores_flag(fault) ==
    /\ mainPc = "l186"
    /\ mainPc' = IF fault THEN "l193" ELSE "l186"
    /\ UNCHANGED <<buffer, is_running, thai_to_eng_mappings, eng_to_thai_mappings,
                   recent_words, files, cwd_is_script_dir, hooked, keyPc, current_word,
                   trayPc, replay, last, loaded, saved, started,
                   unhook_calls, icon_stop_calls>>

\* lines 186-190: one turn of the loop; fault: time.sleep raised
run_l186(fault) ==
    /\ mainPc = "l186"
    /\ mainPc' = IF fault \/ ~is_running THEN "l193" ELSE "l186"
    /\ UNCHANGED <<buffer, is_running, thai_to_eng_mappings, eng_to_thai_mappings,
                   recent_words, files, cwd_is_script_dir, hooked, keyPc, current_word,
                   trayPc, replay, last, loaded, saved, started,
                   unhook_calls, icon_stop_calls>>

\* lines 191-194, and the process ends
run_l193 ==
    /\ mainPc = "l193"
    /\ hooked' = FALSE
    /\ unhook_calls' = unhook_calls + 1
    /\ mainPc' = "done"
    /\ UNCHANGED <<buffer, is_running, thai_to_eng_mappings, eng_to_thai_mappings,
                   recent_words, files, cwd_is_script_dir, keyPc, current_word,
                   trayPc, replay, last, loaded, saved, started, icon_stop_calls>>

\* line 193 when keyboard.unhook_all() raises: run() ends with the exception, and the process
run_l193_raises ==
    /\ mainPc = "l193"
    /\ unhook_calls' = unhook_calls + 1
    /\ mainPc' = "done"
    /\ UNCHANGED <<buffer, is_running, thai_to_eng_mappings, eng_to_thai_mappings,
                   recent_words, files, cwd_is_script_dir, hooked, keyPc, current_word,
                   trayPc, replay, last, loaded, saved, started, icon_stop_calls>>

(***************************************************************************)
(* __init__, lines 21-34.                                                  *)
(***************************************************************************)
NoEvent == [event_type |-> "none", name |-> "none", scan |-> "none"]

\* whether load_mappings raises to __init__: lines 44 and 61 catch Exception
load_mappings_raises(fs, filename, outcome) == FALSE

\* what __init__ found: the files, the outcomes of the two default writes, whether a load
\* raised, and the last save of the process that ran before this one
start_up(fs0, o1, o2, previous) ==
    [found |-> fs0, outcomes |-> <<o1, o2>>,
     raised |-> load_mappings_raises(fs0, ThaiFile, o1)
                    \/ load_mappings_raises(load_mappings_files(fs0, ThaiFile, o1), EngFile, o2),
     previous |-> previous]

\* the state __init__ leaves, from the files fs0 it finds
constructed(fs0, same_dir, o1, o2) ==
    LET fs1 == load_mappings_files(fs0, ThaiFile, o1)
        fs2 == load_mappings_files(fs1, EngFile, o2)
    IN  /\ saved = NeverSaved
        /\ started = start_up(fs0, o1, o2, NeverSaved)
        /\ unhook_calls = 0
        /\ icon_stop_calls = 0
        /\ buffer = <<>>
        /\ is_running = TRUE
        /\ thai_to_eng_mappings = load_mappings_result(fs0, ThaiFile)
        /\ eng_to_thai_mappings = load_mappings_result(fs1, EngFile)
        /\ recent_words = <<>>
        /\ files = fs2
        /\ cwd_is_script_dir = same_dir
        /\ hooked = FALSE
        /\ keyPc = "idle"
        /\ current_word = <<>>
        /\ trayPc = "off"
        /\ mainPc = "l177"
        /\ replay = <<>>
        /\ last = [event |-> NoEvent, running |-> TRUE, buffer |-> <<>>, recent |-> <<>>,
                   tested |-> load_mappings_result(fs0, ThaiFile),
                   thai |-> load_mappings_result(fs0, ThaiFile), raised |-> "none"]
        /\ loaded = load_mappings_result(fs0, ThaiFile)

\* the files before start-up: those of the script directory are any of the samples
FilesAtStart ==
    {[p \in Dirs \X FileNames |->
        IF p = <<"script", ThaiFile>> THEN ab[1]
        ELSE IF p = <<"script", EngFile>> THEN ab[2]
        ELSE Absent] : ab \in FilePairsAtStart}

(***************************************************************************)
(* Spec: the three threads, with a disk, a keyboard library and a sleep    *)
(* that do not fail.                                                       *)
(***************************************************************************)
Init ==
    \E fs0 \in FilesAtStart : constructed(fs0, TRUE, "ok", "ok")

\* the typist stops pressing space once MaxUnmatched unmatched words are recorded
Typist(ev) ==
    (ev.event_type = "down" /\ ev.name = "space") => Len(recent_words) < MaxUnmatched

KeyEvent == \E ev \in TypedEvents(buffer) : Typist(ev) /\ on_key_event(ev, 0)
KeyEventL146 == on_key_event_l146(0)
TrayAdd == show_add_mapping_dialog
TrayAddL100 == show_add_mapping_dialog_l100("none")
TrayExit == exit_app
RunHook == run_l177
RunStartTray == run_l181
RunLoop == run_l186(FALSE)
RunCleanup == run_l193

Next ==
    \/ KeyEvent
    \/ KeyEventL146
    \/ TrayAdd
    \/ TrayAddL100
    \/ TrayExit
    \/ RunHook
    \/ RunStartTray
    \/ RunLoop
    \/ RunCleanup

Spec == Init /\ [][Next]_vars


(***************************************************************************)
(* SpecRecent: the keyboard listener alone, the typist typing one-letter   *)
(* words that no table holds, each followed by space and enter.            *)
(***************************************************************************)
\* words "d" the typist lets recent_words hold at a time
MaxRare == 3

Count(seq, x) == Cardinality({i \in 1..Len(seq) : seq[i] = x})

RecentEvents(buf, recent) ==
    {KeyDown(c) : c \in {x \in {"b", "d"} :
                            buf = <<>> /\ (x = "d" => Count(recent, <<"d">>) < MaxRare)}}
        \cup {KeyDown("space") : x \in {y \in {0} : Len(buf) = 1}}
        \cup {KeyDown("enter") : x \in {y \in {0} : Len(buf) = 2}}

InitRecent ==
    constructed([p \in Dirs \X FileNames |-> Absent], TRUE, "ok", "ok")

KeyRecent == \E ev \in RecentEvents(buffer, recent_words) : on_key_event(ev, 0)

NextRecent ==
    \/ RunHook
    \/ KeyRecent

SpecRecent == InitRecent /\ [][NextRecent]_vars

(***************************************************************************)
(* Properties.                                                             *)
(***************************************************************************)
\* on_key_event has returned from a key-down event
Handled == keyPc = "idle" /\ last.event.event_type = "down"
\* ... one it did not drop at line 113
Ran == Handled /\ last.running
SpaceDone == Ran /\ last.event.name = "space"
EnterDone == Handled /\ last.event.name = "enter"
BackspaceDone == Handled /\ last.event.name = "backspace"

\* replay is the correction of word by text: len(word)+1 backspaces, then one write of text and a space
IsCorrection(word, text) ==
    /\ Len(replay) = Len(word) + 2
    /\ \A i \in 1..(Len(word) + 1) : replay[i] = [op |-> "press_and_release", key |-> "backspace"]
    /\ replay[Len(word) + 2] = [op |-> "write", text |-> Append(text, " ")]

\* C1: typed into an empty buffer, a key t of thai_to_eng_mappings followed by space is
\* replayed as len(t)+1 backspaces and then one write of thai_to_eng_mappings[t] and a space.
C1_ThaiKeyCorrected ==
    (SpaceDone /\ last.buffer # <<>> /\ last.buffer \in DOMAIN last.thai)
        => IsCorrection(last.buffer, last.thai[last.buffer])

C1_Witness ==
    /\ SpaceDone
    /\ last.buffer = AddKey
    /\ AddKey \in DOMAIN last.thai
    /\ Len(replay) = 7

\* C2: after a space handled while running the buffer is empty.
C2_BufferEmptyAfterSpace == SpaceDone => buffer = <<>>

\* C3: after events that ended with a space, a key t of thai_to_eng_mappings followed by
\* space is evaluated as t alone, and corrected.
C3_WordAfterBoundaryCorrected ==
    (/\ SpaceDone
     /\ Len(last.buffer) > Len(LastWord(last.buffer))
     /\ LastWord(last.buffer) \in DOMAIN last.thai)
        => IsCorrection(LastWord(last.buffer), last.thai[LastWord(last.buffer)])

\* C4: a typed word that neither table holds, followed by space, makes no replay call and
\* becomes the last entry of recent_words.
C4_UnmatchedWordRecorded ==
    (/\ SpaceDone
     /\ LastWord(last.buffer) # <<>>
     /\ LastWord(last.buffer) \notin DOMAIN last.tested
     /\ LastWord(last.buffer) \notin DOMAIN eng_to_thai_mappings)
        => /\ replay = <<>>
           /\ recent_words # <<>>
           /\ recent_words[Len(recent_words)] = LastWord(last.buffer)

\* C5: recent_words never holds more than 20 entries, and an unmatched word appended to 20
\* entries drops the oldest and keeps the other 19 in order before the new one.
C5_RecentWordsFifo ==
    /\ Len(recent_words) <= 20
    /\ (/\ SpaceDone
        /\ Len(last.recent) = 20
        /\ strip(last.buffer) # <<>>
        /\ strip(last.buffer) \notin DOMAIN last.tested
        /\ strip(last.buffer) \notin DOMAIN eng_to_thai_mappings)
           => /\ Len(recent_words) = 20
              /\ \A i \in 1..19 : recent_words[i] = last.recent[i + 1]
              /\ recent_words[20] = strip(last.buffer)

C5_Witness ==
    /\ SpaceDone
    /\ Len(last.recent) = 20
    /\ last.recent[1] # last.recent[2]
    /\ last.recent[20] # strip(last.buffer)
    /\ recent_words[20] = strip(last.buffer)

\* C6 as claimed: an enter key event always leaves the buffer empty, recent_words as it
\* was, and makes no replay call.
C6_EnterAlwaysResets ==
    EnterDone => (buffer = <<>> /\ recent_words = last.recent /\ replay = <<>>)

\* C6 as amended: an enter key event handled while is_running leaves the buffer empty,
\* recent_words as it was, and makes no replay call.
C6_EnterResetsWhileRunning ==
    (EnterDone /\ last.running) => (buffer = <<>> /\ recent_words = last.recent /\ replay = <<>>)

C6_Witness ==
    EnterDone /\ last.running /\ Len(last.buffer) > 1 /\ last.recent # <<>>

\* C7 as claimed: a backspace key event always removes exactly the last character of a
\* non-empty buffer and changes nothing else.
C7_BackspaceAlwaysRemovesLast ==
    BackspaceDone
        => /\ Len(buffer) = (IF last.buffer = <<>> THEN 0 ELSE Len(last.buffer) - 1)
           /\ \A i \in 1..Len(buffer) : buffer[i] = last.buffer[i]
           /\ recent_words = last.recent
           /\ replay = <<>>

\* C7 as amended: a backspace key event handled while is_running changes nothing on an
\* empty buffer and removes exactly the last character of a non-empty one; it makes no
\* replay call and leaves recent_words as it was.
C7_BackspaceRemovesLastWhileRunning ==
    (BackspaceDone /\ last.running)
        => /\ Len(buffer) = (IF last.buffer = <<>> THEN 0 ELSE Len(last.buffer) - 1)
           /\ \A i \in 1..Len(buffer) : buffer[i] = last.buffer[i]
           /\ recent_words = last.recent
           /\ replay = <<>>

C7_Witness ==
    /\ BackspaceDone
    /\ last.running
    /\ Len(last.buffer) > 1
    /\ last.buffer[1] # last.buffer[2]

\* C8: a word that both tables hold is corrected once, by its thai_to_eng_mappings text.
C8_ThaiTableFirst ==
    (/\ SpaceDone
     /\ strip(last.buffer) \in DOMAIN last.thai
     /\ strip(last.buffer) \in DOMAIN eng_to_thai_mappings)
        => /\ IsCorrection(strip(last.buffer), last.thai[strip(last.buffer)])
           /\ Cardinality({i \in 1..Len(replay) : replay[i].op = "write"}) = 1

C8_Witness ==
    /\ SpaceDone
    /\ strip(last.buffer) \in DOMAIN last.thai
    /\ strip(last.buffer) \in DOMAIN eng_to_thai_mappings
    /\ last.thai[strip(last.buffer)] # eng_to_thai_mappings[strip(last.buffer)]
    /\ replay # <<>>

\* the text for word before 'Add New Mapping' and after it, and its eng_to_thai text
WholeValues(word) ==
    {loaded[w] : w \in {word} \cap DOMAIN loaded}
        \cup (IF word = AddKey
              THEN {<<"U+0E2A", "U+0E1A", "U+0E32", "U+0E22">>}
              ELSE {})
        \cup {eng_to_thai_mappings[w] : w \in {word} \cap DOMAIN eng_to_thai_mappings}

\* C9: however 'Add New Mapping' interleaves with the key events, a lookup raises no
\* KeyError and finds nothing or the whole text the table held before or after the add.
C9_LookupSeesWholeValue ==
    Handled
        => /\ last.raised # "KeyError"
           /\ replay # <<>>
                => \E text \in WholeValues(strip(last.buffer)) :
                       replay[Len(replay)] = [op |-> "write", text |-> Append(text, " ")]

\* the add ran between the test of line 145 and the fetch of line 146
C9_Witness ==
    /\ SpaceDone
    /\ strip(last.buffer) = AddKey
    /\ last.tested # last.thai
    /\ last.tested[AddKey] # last.thai[AddKey]
    /\ replay # <<>>

\* C10: the tray thread is never at the store of line 100 while the key-event thread is
\* between the membership test of line 145 and the fetch of line 146.
C10_MutualExclusion == ~(trayPc = "l100" /\ keyPc = "l146")

(***************************************************************************)
(* SpecStore: the mapping files.  The process is started from any          *)
(* directory, on a disk whose writes can fail; the tray adds and saves;    *)
(* after the process has ended it is started again on the files it left.   *)
(***************************************************************************)
\* the two files of the script directory at start-up, here also with a damaged
\* eng_to_thai.json, beside the user's thai_to_eng.json or alone
StorePairsAtStart ==
    FilePairsAtStart \cup {<<Json(SampleThai), Corrupt>>, <<Absent, Corrupt>>}

StoreFilesAtStart ==
    {[p \in Dirs \X FileNames |->
        IF p = <<"script", ThaiFile>> THEN ab[1]
        ELSE IF p = <<"script", EngFile>> THEN ab[2]
        ELSE Absent] : ab \in StorePairsAtStart}

InitStore ==
    \E fs0 \in StoreFilesAtStart, same_dir \in BOOLEAN, o1 \in WriteOutcomes, o2 \in WriteOutcomes :
        constructed(fs0, same_dir, o1, o2)

\* the program is started again, from the same directory, after the process has ended:
\* __init__, lines 21-34, on the files the process before left
restart(o1, o2) ==
    LET fs1 == load_mappings_files(files, ThaiFile, o1)
        fs2 == load_mappings_files(fs1, EngFile, o2)
    IN  /\ mainPc = "done"
        /\ saved' = NeverSaved
        /\ started' = start_up(files, o1, o2, saved)
        /\ unhook_calls' = 0
        /\ icon_stop_calls' = 0
        /\ buffer' = <<>>
        /\ is_running' = TRUE
        /\ thai_to_eng_mappings' = load_mappings_result(files, ThaiFile)
        /\ eng_to_thai_mappings' = load_mappings_result(fs1, EngFile)
        /\ recent_words' = <<>>
        /\ files' = fs2
        /\ hooked' = FALSE
        /\ keyPc' = "idle"
        /\ current_word' = <<>>
        /\ trayPc' = "off"
        /\ mainPc' = "l177"
        /\ replay' = <<>>
        /\ last' = [event |-> NoEvent, running |-> TRUE, buffer |-> <<>>, recent |-> <<>>,
                    tested |-> load_mappings_result(files, ThaiFile),
                    thai |-> load_mappings_result(files, ThaiFile), raised |-> "none"]
        /\ loaded' = load_mappings_result(files, ThaiFile)
        /\ UNCHANGED cwd_is_script_dir

TrayAddL100Any == \E fault \in SaveFaults : show_add_mapping_dialog_l100(fault)
TraySave == \E fault \in SaveFaults : save_mappings(fault)
\* the disk faults of the default writes are drawn at the first start
Restart == restart("ok", "ok")

NextStore ==
    \/ RunHook
    \/ RunStartTray
    \/ TrayAdd
    \/ TrayAddL100Any
    \/ TraySave
    \/ TrayExit
    \/ RunLoop
    \/ RunCleanup
    \/ Restart

SpecStore == InitStore /\ [][NextStore]_vars

\* the table load_mappings returned for filename at start-up; no action of SpecStore
\* changes eng_to_thai_mappings within a process
AsLoaded(filename) == IF filename = ThaiFile THEN loaded ELSE eng_to_thai_mappings

\* C11: when the last save of a process succeeded, the tables the next start of the program
\* loads are the tables that save wrote, for each of the two tables.
C11_SaveLoadRoundTrip ==
    started.previous.fault = "none"
        => /\ AsLoaded(ThaiFile) = started.previous.thai
           /\ AsLoaded(EngFile) = started.previous.eng

\* C12 as stated: load never raises; for a table absent from storage it returns the default
\* of that name and the file then holds that default; for a table that cannot be parsed it
\* returns the empty table.
C12_LoadWritesDefault ==
    /\ ~started.raised
    /\ \A name \in FileNames :
        LET f == started.found[load_path(name)] IN
        /\ f.kind = "absent" =>
            /\ AsLoaded(name) = default_mappings(name)
            /\ saved.fault = "never" => files[load_path(name)] = Json(default_mappings(name))
        /\ f.kind = "corrupt" => AsLoaded(name) = EmptyTable

\* the outcome of the default write load_mappings made for name
DefaultWrite(name) == IF name = ThaiFile THEN started.outcomes[1] ELSE started.outcomes[2]

\* C12, amended: load never raises; for a table absent from storage it returns the default
\* of that name, whether or not its write of that default succeeds, and the file holds the
\* default when the write succeeds; for a table that cannot be parsed it returns the empty
\* table.
C12_LoadAttemptsDefaultWrite ==
    /\ ~started.raised
    /\ \A name \in FileNames :
        LET f == started.found[load_path(name)] IN
        /\ f.kind = "absent" =>
            /\ AsLoaded(name) = default_mappings(name)
            /\ (saved.fault = "never" /\ DefaultWrite(name) = "ok")
                    => files[load_path(name)] = Json(default_mappings(name))
        /\ f.kind = "corrupt" => AsLoaded(name) = EmptyTable

C12_Witness ==
    /\ started.found[load_path(ThaiFile)].kind = "absent"
    /\ started.found[load_path(EngFile)].kind = "corrupt"
    /\ DefaultWrite(ThaiFile) = "dump"
    /\ saved.fault = "never"
    /\ HelloKey \in DOMAIN loaded
    /\ eng_to_thai_mappings = EmptyTable
    /\ files[load_path(ThaiFile)] = Corrupt

\* C13: after a run of save_mappings, whichever write failed if any, both in-memory tables
\* are the tables it was called on, nothing was raised to the caller, and no file was
\* opened twice.
C13_SaveKeepsTablesAndReturns ==
    saved.fault # "never"
        => /\ thai_to_eng_mappings = saved.thai
           /\ eng_to_thai_mappings = saved.eng
           /\ ~saved.raised
           /\ \A i, j \in 1..Len(saved.opens) : saved.opens[i] = saved.opens[j] => i = j

C13_Witness ==
    /\ saved.fault = "open1"
    /\ AddKey \in DOMAIN thai_to_eng_mappings
    /\ thai_to_eng_mappings = saved.thai
    /\ files[save_path(cwd_is_script_dir, ThaiFile)] # Json(thai_to_eng_mappings)

(***************************************************************************)
(* SpecKeys: the keyboard listener alone, with every event the library     *)
(* delivers and a keyboard library whose calls can raise.                  *)
(***************************************************************************)
\* the call of apply_correction that raises, 0 for none
BridgeFaults == 0..(MaxBuf + 2)

\* only a space key reaches apply_correction
KeyAny ==
    \E ev \in Events(buffer) :
        /\ Typist(ev)
        /\ \E fault \in (IF ev.name = "space" THEN BridgeFaults ELSE {0}) : on_key_event(ev, fault)
KeyL146Any == \E fault \in BridgeFaults : on_key_event_l146(fault)

NextKeys ==
    \/ RunHook
    \/ KeyAny
    \/ KeyL146Any

SpecKeys == Init /\ [][NextKeys]_vars

\* key names of modifier keys
Modifiers == {"shift", "ctrl", "alt", "right shift"}

\* C14: a key-down event of a modifier key leaves the buffer and recent_words as they
\* were and replays nothing, whatever key_to_char gives for its scan code.
C14_ModifierIgnored ==
    (Handled /\ last.event.name \in Modifiers)
        => /\ buffer = last.buffer
           /\ recent_words = last.recent
           /\ replay = <<>>

\* the latest space found its word in a table and fewer calls reached the keyboard
\* library than a correction of that word makes
PartialReplay ==
    /\ SpaceDone
    /\ LET word == strip(last.buffer) IN
        /\ word # <<>>
        /\ word \in (DOMAIN last.tested) \cup (DOMAIN eng_to_thai_mappings)
        /\ Len(replay) < Len(word) + 2

\* C16: when a call of the replay raises, nothing is raised out of on_key_event and the
\* buffer is reset as after a boundary.
C16_ReplayFailureAbsorbed ==
    PartialReplay => (last.raised = "none" /\ strip(buffer) = <<>>)

(***************************************************************************)
(* Properties of Spec, continued.                                          *)
(***************************************************************************)
\* C18: a space key-down event that finds the buffer empty or holding only whitespace
\* replays nothing and leaves recent_words as it was.
C18_BlankSpaceDoesNothing ==
    (Handled /\ last.event.name = "space" /\ strip(last.buffer) = <<>>)
        => (replay = <<>> /\ recent_words = last.recent)

C18_Witness ==
    /\ Ran
    /\ last.event.name = "space"
    /\ last.buffer = <<" ">>
    /\ buffer = <<" ", " ">>
    /\ replay = <<>>

\* a step of the keyboard listener: one that changes what only on_key_event writes
KeyStep ==
    \/ last' # last
    \/ keyPc' # keyPc
    \/ buffer' # buffer
    \/ recent_words' # recent_words
    \/ replay' # replay

TablesStep ==
    \/ thai_to_eng_mappings' # thai_to_eng_mappings
    \/ eng_to_thai_mappings' # eng_to_thai_mappings

\* C19: a step that changes a mapping table is no step of the keyboard listener: it is the
\* store of 'Add New Mapping', which sets thai_to_eng_mappings["vbiyd"] to its fixed text,
\* changes nothing else of the tables and leaves both tables written to their files; and
\* only the handling of a space key-down event leaves a replay.
C19_TablesChangeOnlyByAdd ==
    [][/\ TablesStep =>
            /\ ~KeyStep
            /\ trayPc = "l100"
            /\ eng_to_thai_mappings' = eng_to_thai_mappings
            /\ DOMAIN thai_to_eng_mappings' = (DOMAIN thai_to_eng_mappings) \cup {AddKey}
            /\ thai_to_eng_mappings'[AddKey] = AddVal
            /\ \A k \in (DOMAIN thai_to_eng_mappings) \ {AddKey} :
                    thai_to_eng_mappings'[k] = thai_to_eng_mappings[k]
            /\ files'[save_path(cwd_is_script_dir, ThaiFile)] = Json(thai_to_eng_mappings')
            /\ files'[save_path(cwd_is_script_dir, EngFile)] = Json(eng_to_thai_mappings')
       /\ replay' # <<>> =>
            (last'.event.name = "space" /\ last'.event.event_type = "down")]_vars

C19_Witness ==
    /\ thai_to_eng_mappings # loaded
    /\ thai_to_eng_mappings[AddKey] = AddVal
    /\ files[save_path(cwd_is_script_dir, ThaiFile)] = Json(thai_to_eng_mappings)
    /\ SpaceDone
    /\ last.buffer = AddKey
    /\ replay # <<>>

\* C20: once is_running is False, a key event delivered to on_key_event leaves the buffer,
\* recent_words and both tables as they were and replays nothing, hook removed or not.
C20_EventsIgnoredAfterStop ==
    [][(~is_running /\ keyPc = "idle" /\ KeyStep) =>
            /\ buffer' = buffer
            /\ recent_words' = recent_words
            /\ thai_to_eng_mappings' = thai_to_eng_mappings
            /\ eng_to_thai_mappings' = eng_to_thai_mappings
            /\ replay' = <<>>
            /\ keyPc' = "idle"]_vars

C20_Witness ==
    /\ Handled
    /\ ~last.running
    /\ hooked
    /\ last.event.name = "space"
    /\ last.buffer = <<"d">>
    /\ <<"d">> \in DOMAIN eng_to_thai_mappings
    /\ buffer = <<"d">>
    /\ replay = <<>>

(***************************************************************************)
(* SpecLife: start-up and shutdown.  The tray thread and the main thread,  *)
(* with a sleep, an icon and an unhook that can raise, and a disk whose    *)
(* writes can fail.  The main thread is scheduled fairly: a turn of its    *)
(* loop and its cleanup are taken when they stay possible.  Nothing makes  *)
(* a fault happen.                                                         *)
(***************************************************************************)
RunLoopFault == run_l186(TRUE)
RunCleanupRaises == run_l193_raises
TrayExitL105 == exit_app_l105
TrayExitL106 == \E fault \in BOOLEAN : exit_app_l106(fault)

NextLife ==
    \/ RunHook
    \/ RunStartTray
    \/ RunLoop
    \/ RunLoopFault
    \/ RunCleanup
    \/ RunCleanupRaises
    \/ TrayAdd
    \/ TrayAddL100Any
    \/ TraySave
    \/ TrayExitL105
    \/ TrayExitL106

SpecLife ==
    /\ Init
    /\ [][NextLife]_vars
    /\ WF_vars(RunHook \/ RunStartTray)
    /\ WF_vars(RunLoop)
    /\ WF_vars(RunCleanup \/ RunCleanupRaises)

\* C15: when the process has ended, by 'Exit' or by an exception in the loop of run(),
\* keyboard.unhook_all() and tray_icon.stop() have both been called.
C15_BothCleanupsAttempted ==
    mainPc = "done" => (unhook_calls >= 1 /\ icon_stop_calls >= 1)

\* C17: with the main thread scheduled fairly, once is_running is False the loop of run()
\* ends and keyboard.unhook_all() has been called once, and it is never called twice;
\* is_running, once False, stays False.
C17_StopEndsLoopUnhooksOnce ==
    /\ (~is_running) ~> (mainPc = "done" /\ unhook_calls = 1)
    /\ [](unhook_calls <= 1)
    /\ [][~is_running => ~is_running']_vars

C17_Witness ==
    /\ ~is_running
    /\ mainPc = "done"
    /\ unhook_calls = 1
    /\ icon_stop_calls >= 1

====
